---- MODULE Spec2Model ----
(***************************************************************************)
(* State-machine model of the Gradio helpers of web-craler.ipynb           *)
(* (CELL 5 - CELL 7): ingest_fn, chat_fn, clear_chat, the per-session      *)
(* gr.State dictionary, the process-wide in-memory Chroma store and the    *)
(* shared ThreadPoolExecutor.                                              *)
(*                                                                         *)
(* Python objects are modelled with identity: a session's state dict holds *)
(* a reference to a list (an address in heap); chat_fn's local variable    *)
(* hist is such a reference too, so that `state["history"] = []` and       *)
(* `hist[-1] = ...` act on the objects they act on in the program.         *)
(*                                                                         *)
(* Strings are sequences of one-character strings.                         *)
(*                                                                         *)
(* Collaborators are modelled by their outcomes: the crawl fails, returns  *)
(* no document or returns n documents (whatever the URL and the depth);    *)
(* the splitter yields one chunk per document; the embedding succeeds or   *)
(* raises; a QA job returns an answer generated from the chunks retrieved  *)
(* or raises. A generated answer is taken to differ from the pending       *)
(* marker. chat_fn calls may overlap, on one session or on several; each   *)
(* session runs one ingest_fn call at a time.                              *)
(***************************************************************************)
EXTENDS Integers, Sequences, FiniteSets, TLC

\* ------------------------------------------------------------------------
\* Bounds of the model
\* ------------------------------------------------------------------------
NumSessions == 2
MaxAsks == 2
MaxIngests == 2
MaxClears == 1
MaxDocs == 1
MaxAbandons == 1

Sessions == 1..NumSessions
Asks == 1..MaxAsks

\* ------------------------------------------------------------------------
\* Program constants
\* ------------------------------------------------------------------------
max_workers == 4
RETRIEVAL_K == 4

\* Inputs of the presentation layer
RawMsgs == { <<>>, <<" ">>, <<" ", "a">>, <<"b", " ">> }
RawUrls == { <<" ">>, <<"h","t","t","p",":","/","/","a">>, <<" ","b">> }
Depths == {2, 4}

\* ------------------------------------------------------------------------
\* Pure helpers
\* ------------------------------------------------------------------------
RECURSIVE LStrip(_)
LStrip(s) == IF s # <<>> /\ Head(s) = " " THEN LStrip(Tail(s)) ELSE s

RECURSIVE RStrip(_)
RStrip(s) == IF s # <<>> /\ s[Len(s)] = " " THEN RStrip(SubSeq(s, 1, Len(s) - 1)) ELSE s

\* str.strip()
Strip(s) == RStrip(LStrip(s))

\* str.startswith(p)
StartsWith(s, p) == Len(s) >= Len(p) /\ SubSeq(s, 1, Len(p)) = p

HTTP == <<"h","t","t","p",":","/","/">>
HTTPS == <<"h","t","t","p","s",":","/","/">>

\* ingest_fn lines 158-159
NormalizeUrl(url) == IF StartsWith(url, HTTP) \/ StartsWith(url, HTTPS) THEN url ELSE HTTPS \o url

Min(a, b) == IF a <= b THEN a ELSE b

\* The answer field of a history tuple
PENDING == [kind |-> "pending", ctx |-> {}]
GUIDANCE == [kind |-> "guidance", ctx |-> {}]
ErrorText == [kind |-> "error", ctx |-> {}]
AnswerText(retrieved) == [kind |-> "answer", ctx |-> retrieved]
NoResult == [kind |-> "none", ctx |-> {}]

\* Status strings returned by ingest_fn (the fixed part of the message and
\* the page count)
NoStatus == [kind |-> "", n |-> 0]
\* line 156
StatusEnterUrl == [kind |-> "Please enter a website URL.", n |-> 0]
\* line 166
StatusCrawlFailed == [kind |-> "Crawl failed", n |-> 0]
\* line 169
StatusNoPages == [kind |-> "Could not retrieve any pages.", n |-> 0]
\* line 174
StatusIndexed(n) == [kind |-> "Indexed", n |-> n]
\* not a string: the exception that leaves ingest_fn
Raised == [kind |-> "raised", n |-> 0]

\* ------------------------------------------------------------------------
\* State
\* ------------------------------------------------------------------------
VARIABLES
    state,        \* per session: the gr.State dict {id, qa_chain, history}
    heap,         \* the list objects: heap[r[1]][r[2]] is the list with reference r
    collections,  \* the in-memory Chroma store of the process: collection name -> set of chunks
    ing,          \* per session: the running ingest_fn call and the status last returned
    ask,          \* per chat_fn call: its position and local variables
    queue,        \* EXECUTOR's work queue (chat_fn calls whose job waits for a worker)
    running,      \* jobs being executed by EXECUTOR's worker threads
    nClear,       \* clear_chat calls made
    nAbandon      \* chat_fn calls abandoned by their requester

vars == <<state, heap, collections, ing, ask, queue, running, nClear, nAbandon>>

\* A key that is not in the dict
None == <<0, 0>>
NoChain == [coll |-> None, gen |-> 0]

\* gr.State({}) (line 228): every browser session starts with its own empty dict
EmptyState == [id |-> None, qa_chain |-> NoChain, history |-> None]

\* References to list objects. A list made by a handler running for session
\* s is given the address <<s, k>>, k counting the lists made for s.
Deref(r) == heap[r[1]][r[2]]
NewRef(s) == <<s, Len(heap[s]) + 1>>
Alloc(s, list) == [heap EXCEPT ![s] = Append(@, list)]
Store(r, list) == [heap EXCEPT ![r[1]][r[2]] = list]
Refs == { <<s, k>> : s \in Sessions, k \in 1..(MaxIngests + MaxClears + MaxAsks) }
LiveRefs == { r \in Refs : r[2] <= Len(heap[r[1]]) }

IdleIngest == [pc |-> "idle", k |-> 0, url |-> <<>>, depth |-> 0, docs |-> 0, crawl |-> "none", status |-> NoStatus]

IdleAsk == [pc |-> "idle", s |-> 0, q |-> <<>>, hist |-> None, chain |-> NoChain, res |-> NoResult, shown |-> <<>>]

RECURSIVE SumK(_)
SumK(S) == IF S = {} THEN 0 ELSE LET s == CHOOSE x \in S : TRUE IN ing[s].k + SumK(S \ {s})

\* ingest_fn calls made so far
nIngest == SumK(Sessions)

Init ==
    /\ state = [s \in Sessions |-> EmptyState]
    /\ heap = [s \in Sessions |-> <<>>]
    /\ collections = <<>>
    /\ ing = [s \in Sessions |-> IdleIngest]
    /\ ask = [a \in Asks |-> IdleAsk]
    /\ queue = <<>>
    /\ running = {}
    /\ nClear = 0
    /\ nAbandon = 0

\* The browser sessions are numbered in the order in which they first act
Touched(s) == state[s] # EmptyState \/ ing[s] # IdleIngest \/ \E a \in Asks : ask[a].s = s
MayAct(s) == IF s = 1 THEN TRUE ELSE Touched(s - 1)

\* ------------------------------------------------------------------------
\* ingest_fn (runs in a worker thread of the server: its statements
\* interleave with the event loop's chat_fn steps; one call at a time per
\* session)
\* ------------------------------------------------------------------------

\* The record of a call that has returned
Returned(s, crawl, status) == [IdleIngest EXCEPT !.k = ing[s].k, !.crawl = crawl, !.status = status]

\* lines 154-156: empty URL
IngestEmptyUrl(s, raw, depth) ==
    /\ ing[s].pc = "idle"
    /\ MayAct(s)
    /\ nIngest < MaxIngests
    /\ Strip(raw) = <<>>
    /\ ing' = [ing EXCEPT ![s] = [IdleIngest EXCEPT !.k = ing[s].k + 1, !.status = StatusEnterUrl]]
    /\ UNCHANGED <<state, heap, collections, ask, queue, running, nClear, nAbandon>>

\* uuid.uuid4(): a value no other call draws (the one of the k-th call of session s)
Uuid4(s, k) == <<s, k>>

\* a new id is drawn by every call
IngestCall_NewId(s, raw, depth) ==
    /\ ing[s].pc = "idle"
    /\ MayAct(s)
    /\ nIngest < MaxIngests
    /\ Strip(raw) # <<>>
    /\ state' = [state EXCEPT ![s].id = Uuid4(s, ing[s].k + 1)]
    /\ ing' = [ing EXCEPT ![s] = [IdleIngest EXCEPT !.pc = "crawl",
                                                    !.k = ing[s].k + 1,
                                                    !.url = NormalizeUrl(Strip(raw)),
                                                    !.depth = depth]]
    /\ UNCHANGED <<heap, collections, ask, queue, running, nClear, nAbandon>>

\* lines 154-161: URL normalised, state.setdefault("id", str(uuid.uuid4()))
IngestCall(s, raw, depth) ==
    /\ ing[s].pc = "idle"
    /\ MayAct(s)
    /\ nIngest < MaxIngests
    /\ Strip(raw) # <<>>
    /\ state' = [state EXCEPT ![s].id = IF @ = None THEN Uuid4(s, ing[s].k + 1) ELSE @]
    /\ ing' = [ing EXCEPT ![s] = [IdleIngest EXCEPT !.pc = "crawl",
                                                    !.k = ing[s].k + 1,
                                                    !.url = NormalizeUrl(Strip(raw)),
                                                    !.depth = depth]]
    /\ UNCHANGED <<heap, collections, ask, queue, running, nClear, nAbandon>>

\* lines 163-166 with crawl_website lines 107-117: the loader raises
IngestCrawlFails(s) ==
    /\ ing[s].pc = "crawl"
    /\ ing' = [ing EXCEPT ![s] = Returned(s, "failed", StatusCrawlFailed)]
    /\ UNCHANGED <<state, heap, collections, ask, queue, running, nClear, nAbandon>>

\* an empty crawl reported with the message of a failed one
IngestCrawlEmpty_AsFailure(s) ==
    /\ ing[s].pc = "crawl"
    /\ ing' = [ing EXCEPT ![s] = Returned(s, "empty", StatusCrawlFailed)]
    /\ UNCHANGED <<state, heap, collections, ask, queue, running, nClear, nAbandon>>

\* lines 168-169: the loader returns no document
IngestCrawlEmpty(s) ==
    /\ ing[s].pc = "crawl"
    /\ ing' = [ing EXCEPT ![s] = Returned(s, "empty", StatusNoPages)]
    /\ UNCHANGED <<state, heap, collections, ask, queue, running, nClear, nAbandon>>

\* lines 163-164, 168: the loader returns n >= 1 documents
IngestCrawlOk(s, n) ==
    /\ ing[s].pc = "crawl"
    /\ n >= 1
    /\ ing' = [ing EXCEPT ![s].pc = "build", ![s].docs = n, ![s].crawl = "ok",
                                 ![s].url = <<>>, ![s].depth = 0]
    /\ UNCHANGED <<state, heap, collections, ask, queue, running, nClear, nAbandon>>

\* one collection name for every session
CollectionName_Shared(sid) == <<0, 1>>

\* line 128: collection_name=f"session-{sid}"
CollectionName(sid) == sid

\* line 125: the chunks of this crawl (one per document), tagged with the
\* session that crawled them and the number of its ingest_fn call
Chunks(s, n) == { [by |-> s, crawl |-> ing[s].k, doc |-> d] : d \in 1..n }

\* Chroma(collection_name=..., persist_directory=None): get_or_create_collection
\* in the one in-memory store all Chroma objects of the process share
GetOrCreate(name) == IF name \in DOMAIN collections THEN collections[name] ELSE {}

StoreWith(name, chunks) ==
    [c \in DOMAIN collections \cup {name} |-> IF c = name THEN chunks ELSE collections[c]]

\* build_vectorstore lines 124-129: from_documents gets or creates the named
\* collection and adds the chunks to it
build_vectorstore(s, sid) == StoreWith(CollectionName(sid), GetOrCreate(CollectionName(sid)) \cup Chunks(s, ing[s].docs))

\* make_qa_chain lines 132-141: a new chain whose retriever reads the store's collection
make_qa_chain(s, sid) == [coll |-> CollectionName(sid), gen |-> ing[s].k]

\* lines 171-172: the index is built and state["qa_chain"] is set to the new chain
IngestAttach(s) ==
    /\ ing[s].pc = "build"
    /\ collections' = build_vectorstore(s, state[s].id)
    /\ state' = [state EXCEPT ![s].qa_chain = make_qa_chain(s, state[s].id)]
    /\ ing' = [ing EXCEPT ![s].pc = "reset"]
    /\ UNCHANGED <<heap, ask, queue, running, nClear, nAbandon>>

\* line 171 when EMBEDDER fails inside from_documents: no try around it,
\* the exception leaves ingest_fn; the collection was got or created before
\* the texts were embedded
BuildVectorstoreFails(s) ==
    /\ ing[s].pc = "build"
    /\ LET name == CollectionName(state[s].id)
       IN  collections' = StoreWith(name, GetOrCreate(name))
    /\ ing' = [ing EXCEPT ![s] = Returned(s, "ok", Raised)]
    /\ UNCHANGED <<state, heap, ask, queue, running, nClear, nAbandon>>

\* the success status is returned without line 173
IngestReset_KeepHistory(s) ==
    /\ ing[s].pc = "reset"
    /\ ing' = [ing EXCEPT ![s] = Returned(s, "ok", StatusIndexed(ing[s].docs))]
    /\ UNCHANGED <<state, heap, collections, ask, queue, running, nClear, nAbandon>>

\* lines 173-174: state["history"] = [] and the success status
IngestReset(s) ==
    /\ ing[s].pc = "reset"
    /\ heap' = Alloc(s, <<>>)
    /\ state' = [state EXCEPT ![s].history = NewRef(s)]
    /\ ing' = [ing EXCEPT ![s] = Returned(s, "ok", StatusIndexed(ing[s].docs))]
    /\ UNCHANGED <<collections, ask, queue, running, nClear, nAbandon>>

\* ------------------------------------------------------------------------
\* clear_chat, lines 206-208
\* ------------------------------------------------------------------------
\* the whole dict is emptied before the new list is stored
clear_chat_DropsIndex(s) ==
    /\ nClear < MaxClears
    /\ MayAct(s)
    /\ nClear' = nClear + 1
    /\ heap' = Alloc(s, <<>>)
    /\ state' = [state EXCEPT ![s] = [EmptyState EXCEPT !.history = NewRef(s)]]
    /\ UNCHANGED <<collections, ing, ask, queue, running, nAbandon>>

\* state["history"] = []; return state, []
clear_chat(s) ==
    /\ nClear < MaxClears
    /\ MayAct(s)
    /\ nClear' = nClear + 1
    /\ heap' = Alloc(s, <<>>)
    /\ state' = [state EXCEPT ![s].history = NewRef(s)]
    /\ UNCHANGED <<collections, ing, ask, queue, running, nAbandon>>

\* ------------------------------------------------------------------------
\* chat_fn (an async generator driven by the event loop: the code between
\* two suspension points runs without interleaving)
\* ------------------------------------------------------------------------
\* chat_fn calls are numbered in the order in which they are made
MayStart(a) == IF a = 1 THEN TRUE ELSE ask[a - 1].pc # "idle"

\* hist[-1] = turn
SetLast(list, turn) == [list EXCEPT ![Len(list)] = turn]

\* the wrong key is tested
NoIndex_History(st) == st.history = None

\* line 185: "qa_chain" not in state
NoIndex(st) == st.qa_chain = NoChain

\* lines 178-183: empty question; hist is returned untouched
ChatEmpty(a, s, raw) ==
    /\ ask[a].pc = "idle"
    /\ MayStart(a)
    /\ MayAct(s)
    /\ Strip(raw) = <<>>
    /\ LET hist == state[s].history
           view == IF hist = None THEN <<>> ELSE Deref(hist)
       IN  ask' = [ask EXCEPT ![a] = [IdleAsk EXCEPT !.pc = "done", !.s = s, !.hist = hist,
                                                     !.shown = <<view>>]]
    /\ UNCHANGED <<state, heap, collections, ing, queue, running, nClear, nAbandon>>

\* lines 178-188: no index; the guidance turn is appended to hist, which is
\* the stored list or, without a "history" key, the default [] of state.get
\* (a list no other object refers to: it is dropped when the call returns
\* and is not put on the heap)
ChatNoIndex(a, s, raw) ==
    /\ ask[a].pc = "idle"
    /\ MayStart(a)
    /\ MayAct(s)
    /\ Strip(raw) # <<>>
    /\ NoIndex(state[s])
    /\ LET msg == Strip(raw)
           hist == state[s].history
           list == Append(IF hist = None THEN <<>> ELSE Deref(hist), <<msg, GUIDANCE>>)
       IN  /\ heap' = IF hist = None THEN heap ELSE Store(hist, list)
           /\ ask' = [ask EXCEPT ![a] = [IdleAsk EXCEPT !.pc = "done", !.s = s, !.q = msg,
                                                        !.hist = hist, !.shown = <<list>>]]
    /\ UNCHANGED <<state, collections, ing, queue, running, nClear, nAbandon>>

\* the pending turn is appended but not published (no first yield)
ChatAppendPending_NoYield(a, s, raw) ==
    /\ ask[a].pc = "idle"
    /\ MayStart(a)
    /\ MayAct(s)
    /\ Strip(raw) # <<>>
    /\ ~NoIndex(state[s])
    /\ LET msg == Strip(raw)
           old == state[s].history
           hist == IF old = None THEN NewRef(s) ELSE old
           list == Append(IF old = None THEN <<>> ELSE Deref(old), <<msg, PENDING>>)
       IN  /\ heap' = IF old = None THEN Alloc(s, list) ELSE Store(hist, list)
           /\ ask' = [ask EXCEPT ![a] = [IdleAsk EXCEPT !.pc = "published", !.s = s, !.q = msg,
                                                        !.hist = hist]]
    /\ UNCHANGED <<state, collections, ing, queue, running, nClear, nAbandon>>

\* lines 178-191: the pending turn is appended and published (first yield).
\* Without a "history" key hist is the default [] of state.get, a new list
\* the state does not refer to.
ChatAppendPending(a, s, raw) ==
    /\ ask[a].pc = "idle"
    /\ MayStart(a)
    /\ MayAct(s)
    /\ Strip(raw) # <<>>
    /\ ~NoIndex(state[s])
    /\ LET msg == Strip(raw)
           old == state[s].history
           hist == IF old = None THEN NewRef(s) ELSE old
           list == Append(IF old = None THEN <<>> ELSE Deref(old), <<msg, PENDING>>)
       IN  /\ heap' = IF old = None THEN Alloc(s, list) ELSE Store(hist, list)
           /\ ask' = [ask EXCEPT ![a] = [IdleAsk EXCEPT !.pc = "published", !.s = s, !.q = msg,
                                                        !.hist = hist, !.shown = <<list>>]]
    /\ UNCHANGED <<state, collections, ing, queue, running, nClear, nAbandon>>

\* lines 193-197: the generator is resumed, reads state["qa_chain"].invoke,
\* submits it to EXECUTOR and suspends on the future
ChatSchedule(a) ==
    /\ ask[a].pc = "published"
    /\ ask' = [ask EXCEPT ![a].pc = "waiting", ![a].chain = state[ask[a].s].qa_chain]
    /\ queue' = Append(queue, a)
    /\ UNCHANGED <<state, heap, collections, ing, running, nClear, nAbandon>>

\* line 144: a free worker thread of EXECUTOR takes the oldest queued job
WorkerTake ==
    /\ queue # <<>>
    /\ Cardinality(running) < max_workers
    /\ running' = running \cup {Head(queue)}
    /\ queue' = Tail(queue)
    /\ UNCHANGED <<state, heap, collections, ing, ask, nClear, nAbandon>>

\* make_qa_chain line 133: the retriever returns k chunks of the chain's
\* collection as it is when the job runs (all of them when there are fewer)
Retrievable(c) ==
    LET coll == collections[c.coll]
    IN  { r \in SUBSET coll : Cardinality(r) = Min(RETRIEVAL_K, Cardinality(coll)) }

\* the job of an abandoned call still runs; nobody reads its result
Deliver(a, r) == IF ask[a].pc = "waiting" THEN [ask EXCEPT ![a].res = r] ELSE ask

\* lines 132-141, 196: qa_chain.invoke returns the generated answer
WorkerAnswers(a) ==
    /\ a \in running
    /\ running' = running \ {a}
    /\ \E r \in Retrievable(ask[a].chain) : ask' = Deliver(a, AnswerText(r))
    /\ UNCHANGED <<state, heap, collections, ing, queue, nClear, nAbandon>>

\* lines 132-141, 196: qa_chain.invoke raises (generation or retrieval failed)
WorkerFails(a) ==
    /\ a \in running
    /\ running' = running \ {a}
    /\ ask' = Deliver(a, [kind |-> "raise", ctx |-> {}])
    /\ UNCHANGED <<state, heap, collections, ing, queue, nClear, nAbandon>>

\* lines 198-200: the text of the turn
FinalText(res) == IF res.kind = "raise" THEN ErrorText ELSE res

\* without lines 194 and 199-200: the job's exception leaves chat_fn
ChatResolve_Raises(a) ==
    /\ ask[a].pc = "waiting"
    /\ ask[a].res # NoResult
    /\ LET hist == ask[a].hist
           list == SetLast(Deref(hist), <<ask[a].q, ask[a].res>>)
       IN  IF ask[a].res.kind = "raise"
           THEN /\ heap' = heap
                /\ ask' = [ask EXCEPT ![a].pc = "raised"]
           ELSE /\ heap' = Store(hist, list)
                /\ ask' = [ask EXCEPT ![a].pc = "done", ![a].shown = Append(@, list)]
    /\ UNCHANGED <<state, collections, ing, queue, running, nClear, nAbandon>>

\* lines 198-203: the future is done, the generator resumes, writes
\* hist[-1] and publishes (second yield)
ChatResolve(a) ==
    /\ ask[a].pc = "waiting"
    /\ ask[a].res # NoResult
    /\ LET hist == ask[a].hist
           list == SetLast(Deref(hist), <<ask[a].q, FinalText(ask[a].res)>>)
       IN  /\ heap' = Store(hist, list)
           /\ ask' = [ask EXCEPT ![a].pc = "done", ![a].shown = Append(@, list)]
    /\ UNCHANGED <<state, collections, ing, queue, running, nClear, nAbandon>>

RemoveFrom(q, a) == SelectSeq(q, LAMBDA x : x # a)

\* The requester stops waiting after the pending turn was published: the
\* generator suspended at line 191 is closed, or the task suspended at
\* line 195 is cancelled (CancelledError is not an Exception: line 199 does
\* not catch it). A job still queued is cancelled with the future, a job
\* already taken by a worker runs to its end.
ChatAbandon(a) ==
    /\ ask[a].pc \in {"published", "waiting"}
    /\ nAbandon < MaxAbandons
    /\ nAbandon' = nAbandon + 1
    /\ ask' = [ask EXCEPT ![a].pc = "abandoned", ![a].res = NoResult]
    /\ queue' = RemoveFrom(queue, a)
    /\ UNCHANGED <<state, heap, collections, ing, running, nClear>>

Next ==
    \/ \E a \in Asks, s \in Sessions, raw \in RawMsgs : ChatEmpty(a, s, raw)
    \/ \E a \in Asks, s \in Sessions, raw \in RawMsgs : ChatNoIndex(a, s, raw)
    \/ \E a \in Asks, s \in Sessions, raw \in RawMsgs : ChatAppendPending(a, s, raw)
    \/ \E a \in Asks : ChatSchedule(a)
    \/ WorkerTake
    \/ \E a \in Asks : WorkerAnswers(a)
    \/ \E a \in Asks : WorkerFails(a)
    \/ \E a \in Asks : ChatResolve(a)
    \/ \E a \in Asks : ChatAbandon(a)
    \/ \E s \in Sessions, raw \in RawUrls, d \in Depths : IngestEmptyUrl(s, raw, d)
    \/ \E s \in Sessions, raw \in RawUrls, d \in Depths : IngestCall(s, raw, d)
    \/ \E s \in Sessions : IngestCrawlFails(s)
    \/ \E s \in Sessions : IngestCrawlEmpty(s)
    \/ \E s \in Sessions, n \in 1..MaxDocs : IngestCrawlOk(s, n)
    \/ \E s \in Sessions : BuildVectorstoreFails(s)
    \/ \E s \in Sessions : IngestAttach(s)
    \/ \E s \in Sessions : IngestReset(s)
    \/ \E s \in Sessions : clear_chat(s)

Spec == Init /\ [][Next]_vars

\* ------------------------------------------------------------------------
\* The pool under load: one session whose first ingest has succeeded with
\* one document, and a burst of questions on it whose requesters keep
\* waiting. More questions than workers are in flight.
\* ------------------------------------------------------------------------
MaxPoolAsks == 6
PoolAsks == 1..MaxPoolAsks
PoolMsgs == { <<" ", "a">> }

InitPool ==
    /\ state = [s \in Sessions |-> IF s = 1
                   THEN [id |-> Uuid4(1, 1),
                         qa_chain |-> [coll |-> CollectionName(Uuid4(1, 1)), gen |-> 1],
                         history |-> <<1, 1>>]
                   ELSE EmptyState]
    /\ heap = [s \in Sessions |-> IF s = 1 THEN << <<>> >> ELSE <<>>]
    /\ collections = [c \in {CollectionName(Uuid4(1, 1))} |-> {[by |-> 1, crawl |-> 1, doc |-> 1]}]
    /\ ing = [s \in Sessions |-> IF s = 1
                 THEN [IdleIngest EXCEPT !.k = 1, !.crawl = "ok", !.status = StatusIndexed(1)]
                 ELSE IdleIngest]
    /\ ask = [a \in PoolAsks |-> IdleAsk]
    /\ queue = <<>>
    /\ running = {}
    /\ nClear = 0
    /\ nAbandon = 0

NextPool ==
    \/ \E a \in PoolAsks, raw \in PoolMsgs : ChatAppendPending(a, 1, raw)
    \/ \E a \in PoolAsks : ChatSchedule(a)
    \/ WorkerTake
    \/ \E a \in PoolAsks : WorkerAnswers(a)
    \/ \E a \in PoolAsks : ChatResolve(a)

SpecPool == InitPool /\ [][NextPool]_vars

\* ========================================================================
\* Properties
\* ========================================================================
Last(list) == list[Len(list)]
Questions == { Strip(raw) : raw \in RawMsgs } \ { <<>> }
Count(list, q) == Cardinality({ i \in DOMAIN list : list[i][1] = q })
\* the chat_fn calls that use the list r as their hist
Users(r) == { a \in Asks : ask[a].pc # "idle" /\ ask[a].hist = r }
\* a call that went through lines 190-203 (it read a chain at line 196)
Scheduled(a) == ask[a].chain # NoChain
Quiescent == queue = <<>> /\ running = {} /\ \A a \in Asks : ask[a].pc \in {"idle", "done", "abandoned"}

\* C1: when all the questions asked on one history list have finished, the
\* list holds exactly one entry per submitted question (none lost, none
\* twice), whatever the interleaving of the appends and the resolutions.
C1_OneEntryPerQuestion ==
    \A r \in LiveRefs :
        (\A a \in Users(r) : ask[a].pc = "done")
            => \A q \in Questions :
                   Count(Deref(r), q) = Cardinality({ a \in Users(r) : ask[a].q = q })

\* C2: a history entry that holds a final answer, an error text or the
\* guidance is never written again by any step.
C2_ResolvedTurnIsTerminal ==
    [][\A r \in LiveRefs : \A i \in DOMAIN Deref(r) :
           Deref(r)[i][2] # PENDING => heap'[r[1]][r[2]][i] = Deref(r)[i]]_vars

\* C3: a question handed to the pool was published as pending before, and
\* a question that finished was published twice, first with its pending
\* turn and then with its final text (append pending, publish, schedule,
\* resolve, publish).
C3_PendingShownBeforeFinal ==
    \A a \in Asks :
        /\ (a \in running \/ ask[a].pc = "waiting" \/ Scheduled(a))
              => /\ Len(ask[a].shown) >= 1
                 /\ Last(ask[a].shown[1]) = <<ask[a].q, PENDING>>
        /\ (ask[a].pc = "done" /\ Scheduled(a))
              => /\ Len(ask[a].shown) = 2
                 /\ Last(ask[a].shown[1]) = <<ask[a].q, PENDING>>
                 /\ Last(ask[a].shown[2]) = <<ask[a].q, FinalText(ask[a].res)>>
                 /\ FinalText(ask[a].res).kind \in {"answer", "error"}

C3_Witness ==
    \E a \in Asks : ask[a].pc = "done" /\ Scheduled(a) /\ Len(ask[a].shown) = 2
                    /\ Last(ask[a].shown[2])[2].kind = "answer"

\* C4: sessions are isolated: a query of one session returns only chunks
\* that session ingested, the index of a session holds only its own chunks,
\* and no history list is stored in, or written by the questions of, two
\* sessions.
C4_SessionsIsolated ==
    /\ \A a \in Asks : \A c \in ask[a].res.ctx : c.by = ask[a].s
    /\ \A s \in Sessions : state[s].qa_chain # NoChain
          => \A c \in collections[state[s].qa_chain.coll] : c.by = s
    /\ \A s, u \in Sessions : (s # u /\ state[s].history # None)
          => /\ state[s].history # state[u].history
             /\ \A a \in Asks : ask[a].s = u => ask[a].hist # state[s].history
    /\ \A a, b \in Asks : (ask[a].hist # None /\ ask[a].hist = ask[b].hist) => ask[a].s = ask[b].s

C4_Witness ==
    \E a, b \in Asks :
        /\ ask[a].s # ask[b].s
        /\ ask[a].pc = "done" /\ ask[a].res.kind = "answer" /\ ask[a].res.ctx # {}
        /\ ask[b].pc = "done" /\ ask[b].res.kind = "answer" /\ ask[b].res.ctx # {}

\* C5: after a successful ingest the session's live index holds exactly the
\* chunks of the latest crawl and none of an earlier one.
C5_ReingestReplacesIndex ==
    \A s \in Sessions :
        (ing[s].pc = "idle" /\ ing[s].status.kind = "Indexed")
            => collections[state[s].qa_chain.coll]
                   = { [by |-> s, crawl |-> ing[s].k, doc |-> d] : d \in 1..ing[s].status.n }

\* C6: a non-empty question asked on a session without an index ends at once
\* with the guidance turn published, and nothing is submitted to the pool;
\* no job of the pool belongs to a call that saw no index.
C6_NoIndexGuidanceWithoutPool ==
    [][\A a \in Asks :
          /\ (ask[a].pc = "idle" /\ ask'[a].pc # "idle" /\ ask'[a].q # <<>>
                 /\ state[ask'[a].s].qa_chain = NoChain)
                => /\ ask'[a].pc = "done"
                   /\ Len(ask'[a].shown) = 1
                   /\ Last(ask'[a].shown[1]) = <<ask'[a].q, GUIDANCE>>
                   /\ queue' = queue
                   /\ running' = running
          /\ (ask'[a].pc = "waiting" /\ ask[a].pc # "waiting")
                => state[ask[a].s].qa_chain # NoChain]_vars

C6_Witness ==
    \E a \in Asks : ask[a].pc = "done" /\ ask[a].q # <<>> /\ ~Scheduled(a)
                    /\ Last(ask[a].shown[1]) = <<ask[a].q, GUIDANCE>>

\* C7: an ingest whose crawl fails or yields no document leaves the
\* session's index, its history and the store as they were, from the call
\* to its return, and the two conditions return different status messages.
C7_FailedCrawlKeepsIndex ==
    [][\A s \in Sessions :
          /\ (ing[s].pc = "idle" /\ ing'[s].pc = "crawl")
              => /\ state'[s].qa_chain = state[s].qa_chain
                 /\ state'[s].history = state[s].history
                 /\ collections' = collections
          /\ (ing[s].pc = "crawl" /\ ing'[s].pc = "idle")
              => /\ state'[s] = state[s]
                 /\ collections' = collections
                 /\ ing'[s].crawl = "failed" => ing'[s].status = StatusCrawlFailed
                 /\ ing'[s].crawl = "empty" => ing'[s].status = StatusNoPages
                 /\ ing'[s].crawl \in {"failed", "empty"}
                 /\ StatusCrawlFailed # StatusNoPages]_vars

C7_Witness ==
    \E s \in Sessions, a \in Asks :
        /\ ing[s].pc = "idle" /\ ing[s].crawl \in {"failed", "empty"} /\ ing[s].k = 2
        /\ state[s].qa_chain.gen = 1
        /\ ask[a].s = s /\ ask[a].pc = "done" /\ ask[a].res.kind = "answer"

\* C8: an ingest never ends with an exception: when the embedding fails it
\* returns a status string.
C8_EmbeddingFailureIsReported ==
    \A s \in Sessions : ing[s].status # Raised

\* C9: when the job of a question fails, the resolving step writes the error
\* text with the question as the last entry of the call's history list,
\* publishes it and ends the call normally; the entries before it, every
\* other list, the session's dict and the store are unchanged.
C9_FailureBecomesTurnText ==
    [][\A a \in Asks :
          (ask[a].pc = "waiting" /\ ask[a].res.kind = "raise" /\ ask'[a].pc \notin {"waiting", "abandoned"})
              => LET old == Deref(ask[a].hist)
                     new == heap'[ask[a].hist[1]][ask[a].hist[2]]
                 IN  /\ ask'[a].pc = "done"
                     /\ Len(new) = Len(old)
                     /\ Last(new) = <<ask[a].q, ErrorText>>
                     /\ \A i \in 1..(Len(old) - 1) : new[i] = old[i]
                     /\ \A r \in LiveRefs \ {ask[a].hist} : heap'[r[1]][r[2]] = Deref(r)
                     /\ Last(ask'[a].shown) = new
                     /\ state' = state
                     /\ collections' = collections]_vars

\* a question failed, and a later question of the same session, which saw
\* the error turn in the history, was answered
C9_Witness ==
    \E a, b \in Asks :
        /\ a # b /\ ask[a].s = ask[b].s
        /\ ask[a].pc = "done" /\ ask[a].res.kind = "raise"
        /\ ask[b].pc = "done" /\ ask[b].res.kind = "answer"
        /\ \E i \in DOMAIN ask[b].shown[1] : ask[b].shown[1][i] = <<ask[a].q, ErrorText>>

\* C10: once every call has ended (or was abandoned by its requester) and
\* the pool has run all its jobs, no turn is left pending.
C10_PendingTurnsGetResolved ==
    Quiescent => \A r \in LiveRefs : \A i \in DOMAIN Deref(r) : Deref(r)[i][2] # PENDING

\* the state the pool specification starts in is a state of the program
InitPoolReached ==
    /\ state[1] = [id |-> Uuid4(1, 1), qa_chain |-> [coll |-> CollectionName(Uuid4(1, 1)), gen |-> 1],
                   history |-> <<1, 1>>]
    /\ heap[1] = << <<>> >>
    /\ collections = [c \in {CollectionName(Uuid4(1, 1))} |-> {[by |-> 1, crawl |-> 1, doc |-> 1]}]
    /\ ing[1] = [IdleIngest EXCEPT !.k = 1, !.crawl = "ok", !.status = StatusIndexed(1)]
    /\ state[2] = EmptyState /\ ing[2] = IdleIngest
    /\ \A a \in Asks : ask[a] = IdleAsk
    /\ queue = <<>> /\ running = {} /\ nClear = 0 /\ nAbandon = 0

\* the size an explicit queue-size configuration of the pool would set.
\* EXECUTOR is built with max_workers only (line 144): whatever the size Q,
\* Q + max_workers + 1 questions in flight exceed it.
QueueSize == 1

\* C11: at most W = 4 jobs execute at the same time, the questions that wait
\* for a worker never exceed the configured queue size, and a waiting
\* question stays queued until a worker takes it (none is dropped).
C11_BoundedPoolAndQueue ==
    /\ Cardinality(running) <= max_workers
    /\ Len(queue) <= QueueSize
    /\ \A a \in PoolAsks : (ask[a].pc = "waiting" /\ ask[a].res = NoResult)
          => (a \in running \/ \E i \in DOMAIN queue : queue[i] = a)

C11_WorkersBounded ==
    /\ Cardinality(running) <= max_workers
    /\ \A a \in PoolAsks : (ask[a].pc = "waiting" /\ ask[a].res = NoResult)
          => (a \in running \/ \E i \in DOMAIN queue : queue[i] = a)

C11_Saturated == Cardinality(running) = max_workers /\ Len(queue) = 2

\* C12: the first ingest_fn call with a non-empty URL gives the session its
\* id (a new uuid), and no later step of any ingest_fn call, successful or
\* failed, changes the id of a session that has one: the calls of one
\* session context work on one state dict with one id.
C12_SessionIdKept ==
    [][\A s \in Sessions :
          /\ state[s].id # None => state'[s].id = state[s].id
          /\ (ing[s].pc = "idle" /\ ing'[s].pc = "crawl")
                => state'[s].id = (IF state[s].id = None THEN Uuid4(s, ing'[s].k) ELSE state[s].id)
          /\ (ing[s].pc = "idle" /\ ing'[s].pc = "crawl") => state'[s].id # None]_vars

\* a second call with a non-empty URL runs on a session whose id the first
\* call assigned
C12_Witness ==
    \E s \in Sessions : ing[s].k = 2 /\ ing[s].pc = "crawl" /\ state[s].id = Uuid4(s, 1)

\* Documented cap of the crawl depth (README "up to 3 levels deep", the
\* slider's maximum)
maxCrawlDepth == 3

C14_GuidanceTurnsRetained ==
    \A a, b \in Asks :
        ( /\ a < b
          /\ ask[a].pc = "done" /\ ask[b].pc = "done"
          /\ ask[a].s = ask[b].s
          /\ ask[a].q # <<>> /\ ask[b].q # <<>>
          /\ ~Scheduled(a) /\ ~Scheduled(b)
          /\ nClear = 0 )
        => \E i \in DOMAIN Last(ask[b].shown) : Last(ask[b].shown)[i] = <<ask[a].q, GUIDANCE>>

\* C15: a question is answered against the index that was live when it was
\* scheduled: the chunks its answer was generated from were all indexed by
\* the ingest that made the chain the call captured, or by an earlier one.
C15_AnsweredFromCapturedIndex ==
    \A a \in Asks :
        ask[a].res.kind = "answer" => \A c \in ask[a].res.ctx : c.crawl <= ask[a].chain.gen

\* the list a session's state refers to after a step (empty without the key)
StoredHistoryAfter(s) ==
    IF state'[s].history = None THEN <<>> ELSE heap'[state'[s].history[1]][state'[s].history[2]]

\* C16: on a session that has a stored history, the history returned by the
\* final step of a scheduled question is the session's stored history at
\* that moment, also when an ingest or a clear has reset it meanwhile.
C16_ReturnedHistoryIsStored ==
    [][\A a \in Asks :
          (ask[a].pc = "waiting" /\ ask'[a].pc = "done" /\ state'[ask[a].s].history # None)
             => Last(ask'[a].shown) = StoredHistoryAfter(ask[a].s)]_vars

\* C17: the ingest_fn call that attaches a new index resets the history
\* before it returns: after line 172 the call can only go on to line 173,
\* and when it returns its success status the state holds the chain this
\* call made and a new, empty history list. Every other step of an
\* ingest_fn call (empty URL, failed crawl, no document, failed embedding,
\* and the steps before the index is attached) leaves the stored history
\* and every list unchanged.
C17_HistoryResetWithIndex ==
    [][\A s \in Sessions : ing'[s] # ing[s] =>
          IF ing'[s].status.kind = "Indexed"
          THEN /\ ing[s].pc = "reset"
               /\ state'[s].qa_chain = make_qa_chain(s, state[s].id)
               /\ state'[s].history # None
               /\ state'[s].history # state[s].history
               /\ state'[s].history \notin LiveRefs
               /\ StoredHistoryAfter(s) = <<>>
          ELSE /\ ing[s].pc # "reset"
               /\ state'[s].history = state[s].history
               /\ heap' = heap]_vars

\* a second successful ingest has replaced a history that held a turn
C17_Witness ==
    \E s \in Sessions :
        /\ ing[s].k = 2 /\ ing[s].pc = "idle" /\ ing[s].status.kind = "Indexed"
        /\ Len(heap[s]) = 2 /\ heap[s][1] # <<>>
        /\ state[s].history = <<s, 2>> /\ Deref(state[s].history) = <<>>
        /\ state[s].qa_chain.gen = 2

\* C18: a clear_chat step stores a new, empty history list and changes
\* neither the id, nor the chain, nor the store; a non-empty question that
\* starts on a session with a chain, whatever its history, is published as
\* pending, and the job then submitted to the pool is the invoke of the
\* chain the state holds.
C18_ClearKeepsIndex ==
    [][/\ nClear' # nClear =>
            /\ collections' = collections
            /\ \A s \in Sessions : state'[s].id = state[s].id /\ state'[s].qa_chain = state[s].qa_chain
            /\ \E s \in Sessions : /\ state'[s].history # state[s].history
                                   /\ state'[s].history \notin LiveRefs
                                   /\ StoredHistoryAfter(s) = <<>>
       /\ \A a \in Asks :
            /\ (ask[a].pc = "idle" /\ ask'[a].pc # "idle" /\ ask'[a].q # <<>>
                  /\ state[ask'[a].s].qa_chain # NoChain) => ask'[a].pc = "published"
            /\ (ask[a].pc = "published" /\ ask'[a].pc = "waiting")
                  => (ask'[a].chain = state[ask[a].s].qa_chain /\ queue' = Append(queue, a))]_vars

\* one ingest, then clear_chat, then a question: its history is the list
\* clear_chat stored and its answer comes from the chain of that ingest
C18_Witness ==
    \E a \in Asks, s \in Sessions :
        /\ nClear = 1 /\ ing[s].k = 1 /\ ing[s].status.kind = "Indexed"
        /\ Len(heap[s]) = 2 /\ heap[s][1] = <<>>
        /\ state[s].history = <<s, 2>>
        /\ ask[a].s = s /\ ask[a].pc = "done" /\ ask[a].hist = <<s, 2>>
        /\ ask[a].res.kind = "answer" /\ ask[a].res.ctx # {}
        /\ ask[a].chain = state[s].qa_chain /\ ask[a].chain.gen = 1

====
